---- MODULE Spec2Model ----
(***************************************************************************)
(* A model of pathbufd (src/src/lib.rs): PathBufD, a newtype over          *)
(* std::path::PathBuf, and pathbufd_fmt, which builds a PathBufD from a    *)
(* rendered string.  Every method of PathBufD delegates to the wrapped     *)
(* PathBuf, so each operator below models the named method of lib.rs by    *)
(* what that delegation does on a Unix target (separator '/', no           *)
(* prefixes): the joining rule of PathBuf::push, the component parsing     *)
(* behind Path::parent, the growth of the Vec<u8> that stores the path,    *)
(* and serde's string form of a PathBuf.                                   *)
(*                                                                         *)
(* A path is a sequence of bytes.  Bytes are one-character strings; the    *)
(* value "xFF" stands for a byte that is not valid UTF-8.                  *)
(*                                                                         *)
(* Spec is one PathBufD and the calls made on it, in any order: a call     *)
(* records its argument, the content and capacity before it and what it    *)
(* returned, and the caller then drops that record and calls again.        *)
(* SpecFmt is one run of pathbufd_fmt over a rendered string, one loop     *)
(* iteration per step.                                                     *)
(***************************************************************************)
EXTENDS Integers, Sequences, FiniteSets, TLC

VARIABLES
    buf,        \* content of the PathBufD (self.0), a sequence of bytes
    cap,        \* capacity() of the PathBufD
    terminated, \* TRUE once an allocation failure has ended the process
    op,         \* the last method called on the PathBufD
    arg,        \* its argument
    old,        \* the content before that call
    oldcap,     \* the capacity before that call
    ret,        \* what the call returned
    string,     \* pathbufd_fmt: the rendered string
    rest,       \* pathbufd_fmt: the splits the loop has not visited yet
    pc          \* where control is: "idle" between calls, "returned" after a
                \* call on the PathBufD; "loop" and "done" in pathbufd_fmt

vars == <<buf, cap, terminated, op, arg, old, oldcap, ret, string, rest, pc>>

-----------------------------------------------------------------------------
(* Bounds *)

\* longest content of a buffer
MaxLen == 4
\* longest rendered string given to pathbufd_fmt
MaxStr == 7
\* most paths in one call of extend
MaxPaths == 2
\* largest allocation the allocator grants (isize::MAX, scaled down)
MaxAlloc == 32

\* usize::MAX for that isize::MAX
UsizeMax == 2 * MaxAlloc + 1

-----------------------------------------------------------------------------
(* Bytes and sequences *)

\* the absent value (None, the unit value)
None == "None"

SEP == "/"
DOT == "."
BAD == "xFF"

\* the bytes of paths
Bytes == {SEP, DOT, "a", BAD}
\* the characters of rendered strings (a Rust str is always valid UTF-8)
Chars == {SEP, "a", "b"}

\* the paths of the documentation's examples
UsrLocal == <<SEP, "u", "s", "r", SEP, "l", "o", "c", "a", "l">>
UsrLocalBin == UsrLocal \o <<SEP, "b", "i", "n">>

SeqsUpTo(S, n) == UNION {[1..k -> S] : k \in 0..n}

Max(a, b) == IF a >= b THEN a ELSE b

Take(s, n) == SubSeq(s, 1, n)
Drop(s, n) == SubSeq(s, n + 1, Len(s))

-----------------------------------------------------------------------------
(* std::path on Unix, as PathBufD's methods use it *)

is_sep_byte(b) == b = SEP

\* Path::has_root, which on Unix is also Path::is_absolute
has_root(p) == Len(p) > 0 /\ is_sep_byte(p[1])

\* OsStr::to_str: Some exactly when the bytes are valid UTF-8
IsUtf8(p) == \A i \in 1..Len(p) : p[i] # BAD

\* Vec<u8>'s smallest non-zero capacity under amortized growth
MinNonZeroCap == 8

\* RawVec growth for `additional` more bytes: the new capacity, or a failure
\* (capacity overflow, or an allocation the allocator does not grant)
Grow(len, capacity, additional, exact) ==
    IF capacity - len >= additional
    THEN [ok |-> TRUE, cap |-> capacity]
    ELSE LET required == len + additional
             newcap == IF exact THEN required
                       ELSE Max(MinNonZeroCap, Max(2 * capacity, required))
         IN IF required > UsizeMax \/ newcap > MaxAlloc
            THEN [ok |-> FALSE, cap |-> capacity]
            ELSE [ok |-> TRUE, cap |-> newcap]

\* PushPath with the bug that an absolute path is appended, not substituted
PushPath_Append(self, path) ==
    IF Len(self) > 0 /\ ~is_sep_byte(self[Len(self)]) /\ ~has_root(path)
    THEN self \o <<SEP>> \o path
    ELSE self \o path

\* The content PathBuf::push leaves: an absolute path replaces self, a
\* relative one is appended after a separator if self does not end in one
PushPath(self, path) ==
    LET need_sep == Len(self) > 0 /\ ~is_sep_byte(self[Len(self)])
        kept == IF has_root(path) THEN <<>>
                ELSE IF need_sep THEN self \o <<SEP>>
                ELSE self
    IN kept \o path

\* push with the bug that "/" pushed onto an absolute buffer does nothing
push_root_noop(b, path) ==
    IF path = <<SEP>> /\ has_root(b.path) THEN b
    ELSE [path |-> PushPath(b.path, path),
          cap |-> Max(b.cap, Len(PushPath(b.path, path))),
          ok |-> b.ok]

\* PathBufD::push on a buffer value [path, cap, ok]: content and capacity
\* after the call; ok is FALSE when growing the storage failed
push(b, path) ==
    LET need_sep == Len(b.path) > 0 /\ ~is_sep_byte(b.path[Len(b.path)])
        trunc == IF has_root(path) THEN <<>> ELSE b.path
        g1 == IF ~has_root(path) /\ need_sep
              THEN Grow(Len(trunc), b.cap, 1, FALSE)
              ELSE [ok |-> TRUE, cap |-> b.cap]
        withsep == IF ~has_root(path) /\ need_sep THEN trunc \o <<SEP>> ELSE trunc
        g2 == Grow(Len(withsep), g1.cap, Len(path), FALSE)
    IN IF ~b.ok THEN b
       ELSE IF ~g1.ok \/ ~g2.ok THEN [path |-> b.path, cap |-> b.cap, ok |-> FALSE]
       ELSE [path |-> PushPath(b.path, path), cap |-> g2.cap, ok |-> TRUE]

\* JoinPath with the bug that an absolute path is appended, not substituted
JoinPath_Concat(self, path) ==
    IF self = <<>> \/ is_sep_byte(self[Len(self)]) THEN self \o path
    ELSE self \o <<SEP>> \o path

\* Path::join: the content of the new buffer
JoinPath(self, path) ==
    IF has_root(path) THEN path
    ELSE IF self = <<>> \/ is_sep_byte(self[Len(self)]) THEN self \o path
    ELSE self \o <<SEP>> \o path

\* PathBufD::join on a buffer value: a new buffer, the receiver untouched.
\* The new buffer's storage starts as a copy of the receiver's content
\* (capacity = length) and grows as push grows it
join(b, path) ==
    LET copy == [path |-> b.path, cap |-> Len(b.path), ok |-> Len(b.path) <= MaxAlloc]
        grown == push(copy, path)
    IN [path |-> IF grown.ok THEN JoinPath(b.path, path) ELSE b.path,
        cap |-> grown.cap,
        ok |-> grown.ok]

\* Components::include_cur_dir: a leading "." is a component of its own
include_cur_dir(p) ==
    /\ ~has_root(p)
    /\ Len(p) >= 1
    /\ p[1] = DOT
    /\ (Len(p) = 1 \/ is_sep_byte(p[2]))

\* Components::len_before_body, before any component was taken at the front
len_before_body(p) ==
    (IF has_root(p) THEN 1 ELSE 0) + (IF include_cur_dir(p) THEN 1 ELSE 0)

\* the index in p of the last separator of the body, 0 if it has none
LastSepOfBody(p) ==
    LET start == len_before_body(p)
        seps == {i \in (start + 1)..Len(p) : is_sep_byte(p[i])}
    IN IF seps = {} THEN 0 ELSE CHOOSE i \in seps : \A j \in seps : j <= i

\* Components::parse_single_component
parse_single_component(comp) ==
    IF comp = <<DOT>> \/ comp = <<>> THEN None
    ELSE IF comp = <<DOT, DOT>> THEN "ParentDir"
    ELSE "Normal"

\* Components::parse_next_component_back: the bytes the last component of
\* the body takes, its separator included, and the component
parse_next_component_back(p) ==
    LET i == LastSepOfBody(p)
        comp == IF i = 0 THEN Drop(p, len_before_body(p)) ELSE Drop(p, i)
        extra == IF i = 0 THEN 0 ELSE 1
    IN [size |-> Len(comp) + extra, comp |-> parse_single_component(comp)]

\* Components::next_back from the state Body: the component taken, what is
\* left of the path, and the state of the back of the iterator
RECURSIVE next_back(_)
next_back(p) ==
    IF Len(p) > len_before_body(p)
    THEN LET r == parse_next_component_back(p)
             left == Take(p, Len(p) - r.size)
         IN IF r.comp # None
            THEN [comp |-> r.comp, path |-> left, back |-> "Body"]
            ELSE next_back(left)
    ELSE IF has_root(p)
    THEN [comp |-> "RootDir", path |-> Take(p, Len(p) - 1), back |-> "Prefix"]
    ELSE IF include_cur_dir(p)
    THEN [comp |-> "CurDir", path |-> Take(p, Len(p) - 1), back |-> "Prefix"]
    ELSE [comp |-> None, path |-> p, back |-> "Done"]

\* Components::trim_right: drop what is no component at the end of the body
RECURSIVE trim_right(_)
trim_right(p) ==
    IF Len(p) > len_before_body(p)
    THEN LET r == parse_next_component_back(p)
         IN IF r.comp # None THEN p ELSE trim_right(Take(p, Len(p) - r.size))
    ELSE p

\* Path::parent: None, or Some(the path without its last component)
parent(p) ==
    LET r == next_back(p)
    IN IF r.comp \in {"Normal", "CurDir", "ParentDir"}
       THEN [some |-> TRUE,
             path |-> IF r.back = "Body" THEN trim_right(r.path) ELSE r.path]
       ELSE [some |-> FALSE, path |-> <<>>]

\* pop with the bug that a path without a parent is emptied
pop_always(p) ==
    [path |-> Take(p, Len(parent(p).path)), ret |-> TRUE]

\* PathBufD::pop: truncate to the parent, if there is one
pop(p) ==
    IF parent(p).some
    THEN [path |-> Take(p, Len(parent(p).path)), ret |-> TRUE]
    ELSE [path |-> p, ret |-> FALSE]

\* PathBufD::as_path: the content, borrowed
as_path(p) == p

\* Display for PathBufD: to_str().unwrap_or("")
Display(p) == IF IsUtf8(p) THEN p ELSE <<>>

\* extend with the bug that the loop stops after the first path
extend_first_only(b, paths) ==
    IF paths = <<>> THEN b ELSE push(b, Head(paths))

\* PathBufD::extend: push every path of paths, in order
RECURSIVE extend(_, _)
extend(b, paths) ==
    IF paths = <<>> THEN b
    ELSE LET pushed == CHOOSE r \in {push(b, Head(paths))} : TRUE
         IN extend(pushed, Tail(paths))

\* try_reserve with the bug that a failure ends the process, as in reserve
try_reserve_aborting(b, additional, exact) ==
    LET g == Grow(Len(b.path), b.cap, additional, exact)
    IN [path |-> b.path, cap |-> g.cap, ok |-> g.ok, ret |-> "Ok"]

\* PathBufD::try_reserve and try_reserve_exact: Ok with the grown capacity,
\* or Err with the buffer as it was
try_reserve(b, additional, exact) ==
    LET g == Grow(Len(b.path), b.cap, additional, exact)
    IN [path |-> b.path, cap |-> g.cap, ok |-> TRUE,
        ret |-> IF g.ok THEN "Ok" ELSE "Err"]

\* PathBufD::reserve and reserve_exact: a failure to grow ends the process
reserve(b, additional, exact) ==
    LET g == Grow(Len(b.path), b.cap, additional, exact)
    IN [path |-> b.path, cap |-> g.cap, ok |-> g.ok]

\* shrink_to with the bug that the length is no lower limit
shrink_to_below_len(b, min_capacity) ==
    [path |-> Take(b.path, IF b.cap > min_capacity
                           THEN IF min_capacity < Len(b.path) THEN min_capacity ELSE Len(b.path)
                           ELSE Len(b.path)),
     cap |-> IF b.cap > min_capacity THEN min_capacity ELSE b.cap,
     ok |-> TRUE]

\* PathBufD::shrink_to (Vec::shrink_to): never below the length
shrink_to(b, min_capacity) ==
    [path |-> b.path,
     cap |-> IF b.cap > min_capacity
             THEN Max(Len(b.path), min_capacity)
             ELSE b.cap,
     ok |-> TRUE]

\* PathBufD::shrink_to_fit (Vec::shrink_to_fit)
shrink_to_fit(b) ==
    [path |-> b.path,
     cap |-> IF b.cap > Len(b.path) THEN Len(b.path) ELSE b.cap,
     ok |-> TRUE]

\* serialize with the bug that it writes the display rendering
serialize_lossy(p) ==
    [ok |-> TRUE, str |-> IF IsUtf8(p) THEN p ELSE <<>>]

\* Serialize for PathBufD (derived: the newtype serializes as its PathBuf,
\* which serde writes as a string and refuses when it is not valid UTF-8)
serialize(p) ==
    IF IsUtf8(p)
    THEN [ok |-> TRUE, str |-> p]
    ELSE [ok |-> FALSE, str |-> <<>>]

\* Deserialize for PathBufD (derived: a string becomes the PathBuf)
deserialize(s) ==
    IF s.ok
    THEN [ok |-> TRUE, path |-> s.str]
    ELSE [ok |-> FALSE, path |-> <<>>]

-----------------------------------------------------------------------------
(* pathbufd_fmt *)

\* the index of the first separator of s, 0 if there is none
FirstSep(s) ==
    IF \E i \in 1..Len(s) : s[i] = SEP
    THEN CHOOSE i \in 1..Len(s) : s[i] = SEP /\ \A j \in 1..(i - 1) : s[j] # SEP
    ELSE 0

\* str::split("/"): the substrings between separators, empty ones included
RECURSIVE Split(_)
Split(s) ==
    IF FirstSep(s) = 0 THEN <<s>>
    ELSE <<Take(s, FirstSep(s) - 1)>> \o Split(Drop(s, FirstSep(s)))

\* the rendered strings pathbufd_fmt is given
Strings == SeqsUpTo(Chars, MaxStr) \cup {UsrLocalBin}

InitFmt ==
    /\ string \in Strings
    /\ rest = Split(string)
    /\ pc = "loop"
    /\ buf = <<>>
    /\ cap = 0
    /\ terminated = FALSE
    /\ op = "new"
    /\ arg = None
    /\ old = <<>>
    /\ oldcap = 0
    /\ ret = None

\* the loop body with the bug that an empty split is pushed as it is
FmtLoopBody_NoRoot(b, split) == push(b, split)

\* one iteration of the loop over the splits
FmtLoopBody(b, split) ==
    IF split = <<>> THEN push(b, <<SEP>>) ELSE push(b, split)

FmtStep ==
    /\ pc = "loop"
    /\ rest # <<>>
    /\ ~terminated
    /\ LET b == FmtLoopBody([path |-> buf, cap |-> cap, ok |-> TRUE], Head(rest))
       IN /\ buf' = b.path
          /\ cap' = b.cap
          /\ terminated' = ~b.ok
    /\ rest' = Tail(rest)
    /\ UNCHANGED <<op, arg, old, oldcap, ret, string, pc>>

FmtReturn ==
    /\ pc = "loop"
    /\ rest = <<>>
    /\ ~terminated
    /\ pc' = "done"
    /\ UNCHANGED <<buf, cap, terminated, op, arg, old, oldcap, ret, string, rest>>

NextFmt == FmtStep \/ FmtReturn

SpecFmt == InitFmt /\ [][NextFmt]_vars

-----------------------------------------------------------------------------
(* A PathBufD and the calls made on it *)

\* every content a buffer is given
Paths == SeqsUpTo(Bytes, MaxLen) \cup {UsrLocal}

\* the paths given to push and join: relative and absolute, empty, with and
\* without separators, "." and "..", not valid UTF-8
Segments ==
    { <<>>, <<SEP>>, <<"a">>, <<DOT>>, <<BAD>>, <<DOT, DOT>>,
      <<SEP, "a">>, <<"a", SEP>>, <<SEP, SEP>> }

\* the paths given to extend
ExtendSegments == { <<SEP>>, <<"a">>, <<SEP, "a">>, <<DOT>> }

\* the sizes given to the capacity methods, the pathological ones included
Sizes == 0..2 \cup {MaxAlloc, MaxAlloc + 1, UsizeMax}

self == [path |-> buf, cap |-> cap, ok |-> TRUE]

\* Into<PathBufD> for PathBuf: any path, stored exactly
Init ==
    /\ buf \in Paths
    /\ cap = Len(buf)
    /\ terminated = FALSE
    /\ op = None
    /\ arg = None
    /\ old = <<>>
    /\ oldcap = 0
    /\ ret = None
    /\ string = <<>>
    /\ rest = <<>>
    /\ pc = "idle"

\* what every call records, and what none touches
Called(name, a) ==
    /\ pc = "idle"
    /\ ~terminated
    /\ pc' = "returned"
    /\ op' = name
    /\ arg' = a
    /\ old' = buf
    /\ oldcap' = cap
    /\ UNCHANGED <<string, rest>>

\* the receiver after a call that left it as b
Becomes(b) ==
    /\ buf' = b.path
    /\ cap' = b.cap
    /\ terminated' = ~b.ok

\* the caller drops what the call returned and goes on
Discard ==
    /\ pc = "returned"
    /\ ~terminated
    /\ pc' = "idle"
    /\ op' = None
    /\ arg' = None
    /\ old' = <<>>
    /\ oldcap' = 0
    /\ ret' = None
    /\ UNCHANGED <<buf, cap, terminated, string, rest>>

Push ==
    \E path \in Segments :
        /\ Called("push", path)
        /\ Len(PushPath(buf, path)) <= MaxLen
        /\ Becomes(push(self, path))
        /\ ret' = None

Join ==
    \E path \in Segments :
        /\ Called("join", path)
        /\ Len(JoinPath(buf, path)) <= MaxLen
        /\ \E joined \in {join(self, path)} :
            /\ terminated' = ~joined.ok
            /\ ret' = joined
        /\ UNCHANGED <<buf, cap>>

Pop ==
    /\ Called("pop", None)
    /\ buf' = pop(buf).path
    /\ ret' = pop(buf).ret
    /\ UNCHANGED <<cap, terminated>>

\* extend takes self by value: the buffer returned is the receiver, pushed to
Extend ==
    \E paths \in SeqsUpTo(ExtendSegments, MaxPaths) :
        /\ Called("extend", paths)
        /\ \E extended \in {extend(self, paths)} :
            /\ Len(extended.path) <= MaxLen
            /\ Becomes(extended)
            /\ ret' = extended

Reserve ==
    \E additional \in Sizes, exact \in BOOLEAN :
        /\ Called(IF exact THEN "reserve_exact" ELSE "reserve", additional)
        /\ Becomes(reserve(self, additional, exact))
        /\ ret' = None

TryReserve ==
    \E additional \in Sizes, exact \in BOOLEAN :
        /\ Called(IF exact THEN "try_reserve_exact" ELSE "try_reserve", additional)
        /\ \E r \in {try_reserve(self, additional, exact)} :
            /\ Becomes(r)
            /\ ret' = r.ret

ShrinkToFit ==
    /\ Called("shrink_to_fit", None)
    /\ Becomes(shrink_to_fit(self))
    /\ ret' = None

ShrinkTo ==
    \E min_capacity \in Sizes :
        /\ Called("shrink_to", min_capacity)
        /\ Becomes(shrink_to(self, min_capacity))
        /\ ret' = None

\* a value serialized and then deserialized, the receiver only read
RoundTrip ==
    /\ Called("round_trip", None)
    /\ ret' = deserialize(serialize(buf))
    /\ UNCHANGED <<buf, cap, terminated>>

Next ==
    \/ Push
    \/ Join
    \/ Pop
    \/ Extend
    \/ Reserve
    \/ TryReserve
    \/ ShrinkToFit
    \/ ShrinkTo
    \/ RoundTrip
    \/ Discard

Spec == Init /\ [][Next]_vars

-----------------------------------------------------------------------------
(* pathbufd_fmt: what it returns (checked under SpecFmt) *)

Returned == pc = "done"

\* "/seg/seg...": one leading separator, then non-empty segments separated
\* by single separators, no trailing separator
WellFormedAbsolute(s) ==
    /\ Len(s) >= 2
    /\ s[1] = SEP
    /\ s[Len(s)] # SEP
    /\ \A i \in 1..(Len(s) - 1) : ~(s[i] = SEP /\ s[i + 1] = SEP)

\* C1: for a rendered string that is a leading '/' followed by non-empty
\* segments separated by single '/' ("/usr/local/bin"), the display
\* rendering of what pathbufd_fmt returns is the string itself.
C1_FmtAbsoluteDisplay ==
    (Returned /\ WellFormedAbsolute(string)) => Display(buf) = string

C1_Witness ==
    /\ Returned
    /\ string = UsrLocalBin
    /\ Display(buf) = UsrLocalBin

\* C2: pathbufd_fmt of "a//b" returns a buffer that holds the segments a,
\* root marker, b in that order: a is still there.
C2_FmtKeepsSegmentBeforeEmpty ==
    (Returned /\ string = <<"a", SEP, SEP, "b">>) =>
        \E i, k, j \in 1..Len(buf) :
            i < k /\ k < j /\ buf[i] = "a" /\ buf[k] = SEP /\ buf[j] = "b"

HasEmptySplit(s) == \E i \in 1..Len(Split(s)) : Split(s)[i] = <<>>

\* the splits after the last empty one
AfterLastEmpty(splits) ==
    LET last == CHOOSE i \in 1..Len(splits) :
                    /\ splits[i] = <<>>
                    /\ \A j \in (i + 1)..Len(splits) : splits[j] # <<>>
    IN SubSeq(splits, last + 1, Len(splits))

\* segments written one after the other, each after a separator, but for
\* the first
RECURSIVE Separated(_)
Separated(segs) ==
    IF segs = <<>> THEN <<>>
    ELSE IF Len(segs) = 1 THEN segs[1]
    ELSE segs[1] \o <<SEP>> \o Separated(Tail(segs))

\* C10: for a rendered string with an empty split (the empty string, a
\* leading, doubled or trailing '/'), pathbufd_fmt returns the root "/"
\* followed by the non-empty segments after the last empty split, and
\* nothing of what came before; "" and "a/b/" give the root alone.
C10_FmtEmptySplitResets ==
    (Returned /\ HasEmptySplit(string)) =>
        /\ has_root(buf)
        /\ buf = <<SEP>> \o Separated(AfterLastEmpty(Split(string)))
        /\ (string = <<>> => buf = <<SEP>>)
        /\ (string = <<"a", SEP, "b", SEP>> => buf = <<SEP>>)

C10_Witness ==
    /\ Returned
    /\ string = <<"a", SEP, SEP, "b", SEP, "a">>
    /\ buf = <<SEP, "b", SEP, "a">>

-----------------------------------------------------------------------------
(* PathBufD: what a call does (checked under Spec) *)

After(name) == pc = "returned" /\ op = name

\* C3: join leaves the receiver as it was and returns what push makes of a
\* copy of it, for relative and absolute paths.
C3_JoinIsPushOnCopy ==
    (After("join") /\ ~terminated) =>
        /\ buf = old
        /\ cap = oldcap
        /\ ret.path = push([path |-> old, cap |-> Len(old), ok |-> TRUE], arg).path

C3_Witness ==
    /\ After("join")
    /\ old = <<"a">>
    /\ arg = <<SEP, "a">>
    /\ ret.path = <<SEP, "a">>
    /\ buf = <<"a">>

\* a path with no parent: empty, or a root followed by nothing that is a
\* component (separators and "." only)
NoParent(p) ==
    \/ p = <<>>
    \/ /\ has_root(p)
       /\ \A i \in 1..Len(Split(Drop(p, 1))) :
              Split(Drop(p, 1))[i] \in {<<>>, <<DOT>>}

\* C4: pop on an empty buffer or one without a parent (the root alone)
\* returns false and leaves every byte; otherwise it returns true and the
\* buffer is its former parent, strictly shorter than before.
C4_Pop ==
    After("pop") =>
        IF NoParent(old)
        THEN ret = FALSE /\ buf = old
        ELSE /\ ret = TRUE
             /\ parent(old).some
             /\ buf = parent(old).path
             /\ buf = Take(old, Len(buf))
             /\ Len(buf) < Len(old)

C4_Witness ==
    /\ After("pop")
    /\ old = <<"a", SEP, SEP, "a">>
    /\ ret = TRUE
    /\ buf = <<"a">>

\* push called with each path of paths, the last one last
RECURSIVE PushAll(_, _)
PushAll(p, paths) ==
    IF paths = <<>> THEN p
    ELSE LET before == CHOOSE q \in {PushAll(p, SubSeq(paths, 1, Len(paths) - 1))} : TRUE
         IN PushPath(before, paths[Len(paths)])

\* C5: extend returns the buffer that push, called with each path in
\* order, makes of the receiver; the empty sequence and absolute paths
\* included.
C5_ExtendIsRepeatedPush ==
    (After("extend") /\ ~terminated) =>
        /\ ret.path = PushAll(old, arg)
        /\ (arg = <<>> => ret.path = old)

C5_Witness ==
    /\ After("extend")
    /\ old = <<"a">>
    /\ arg = << <<SEP>>, <<"a">> >>
    /\ ret.path = <<SEP, "a">>

CannotSatisfy == arg > oldcap - Len(old) /\ Len(old) + arg > MaxAlloc

\* C7: when the allocator cannot satisfy the request, try_reserve and
\* try_reserve_exact return an error, the process goes on, no success is
\* reported, and the content is what it was.
C7_TryReserveFails ==
    (After("try_reserve") \/ After("try_reserve_exact")) =>
        /\ ~terminated
        /\ buf = old
        /\ (CannotSatisfy => ret = "Err" /\ cap = oldcap)
        /\ (ret = "Ok" => cap - Len(buf) >= arg)

C7_Witness ==
    /\ After("try_reserve")
    /\ old = <<SEP, "a">>
    /\ arg = UsizeMax
    /\ ret = "Err"
    /\ buf = old

\* C8: shrink_to_fit and shrink_to leave what as_path shows; the capacity
\* alone may change, and it stays at least the length of the content.
C8_ShrinkKeepsContent ==
    (After("shrink_to_fit") \/ After("shrink_to")) =>
        /\ as_path(buf) = as_path(old)
        /\ ~terminated
        /\ cap >= Len(buf)
        /\ cap <= oldcap

C8_Witness ==
    /\ After("shrink_to")
    /\ arg = 1
    /\ Len(old) = 3
    /\ oldcap = 8
    /\ cap = 3

\* C9 as claimed: push("/") on a buffer that is absolute leaves its content.
C9_PushRootKeepsContent ==
    (After("push") /\ arg = <<SEP>> /\ has_root(old)) => buf = old

\* C9 as amended: push("/") on a buffer that is absolute leaves the root
\* "/" alone as its content, which is the content it had only when that
\* was "/" already.
C9_PushRootReplaces ==
    (After("push") /\ arg = <<SEP>> /\ has_root(old)) =>
        /\ buf = <<SEP>>
        /\ (buf = old <=> old = <<SEP>>)

C9_Witness ==
    /\ After("push")
    /\ arg = <<SEP>>
    /\ old = UsrLocal
    /\ buf = <<SEP>>

====
